---- MODULE Spec2Model ----
(***************************************************************************)
(* PytorchANNTrainer (capreolus/trainer/pytorchann.py): the training loop  *)
(* of the ANN encoder.  train() either resumes from a completed checkpoint *)
(* or runs _train(): niters iterations of single_train_iteration(), a      *)
(* validate() pass every validatefreq iterations, then save_weights() and  *)
(* the "done" sentinel.                                                    *)
(*                                                                         *)
(* Tensors are abstracted: the encoder's weights are a number modulo WMod, *)
(* the gradient buffers are the number of backward passes accumulated in   *)
(* them since they were last cleared, a training batch is its index.       *)
(***************************************************************************)
EXTENDS Integers, Sequences, FiniteSets

\* ------------------------------------------------------------------ bounds
MaxBatch == 2
MaxIterSize == 4
MaxNiters == 2
MaxGradacc == 2
MaxValidateFreq == 2
MaxTrainSize == 4
MaxDevLen == 3
NumQids == 2
NumDocids == 2
NumPaths == 2
WMod == 5
SchedMaxNiters == 6
SchedMaxValidateFreq == 6
ResumeCalls == 3

Paths == 1..NumPaths
Qids == 1..NumQids
Docids == 1..NumDocids
NoCkpt == [weights |-> -1, opt |-> -1]
NoPreds == [returned |-> FALSE]

VARIABLES
  config,        \* self.config: batch, niters, itersize, gradacc, validatefreq, softmaxloss
  trainSize,     \* len(train_dataset)
  devSet,        \* dev_dataset: sequence of <<qid, posdocid>> examples
  maxCalls,      \* how many times the caller invokes train()
  fs,            \* filesystem: path -> [done, ckpt] (<path>/done, <path>/trained_weights)
  savedBy,       \* results path of an encoder -> checkpoint its last from-scratch run saved
  calls, pc, path, resultsPath, outputPath, existed,
  weights,       \* encoder.model parameters
  optState,      \* self.optimizer state (number of steps it has applied)
  gradAcc,       \* backward passes accumulated in the .grad buffers since last cleared
  gradEnabled,   \* torch.is_grad_enabled()
  gradPrev,      \* value the no_grad() scope restores on exit
  mode,          \* encoder.model.training: "train" or "eval"
  loss_function, \* self.loss_function
  niter, bi, batches_since_update, iter_loss, train_loss,
  nSteps, nBackward, trainFetched, devFetched, nSaves, nLoads, doneWrites,
  valCalls, valReturns, valAfter,
  iterSteps, iterBackward, stepsExpected, lastStepGrads,
  lastCall, lastLoss, preds, vbi, valResult, raisedAt, loaded

cfgVars == <<config, trainSize, devSet, maxCalls>>
callVars == <<calls, path, resultsPath, outputPath, existed, loaded>>
fsVars == <<fs, savedBy>>
modelVars == <<weights, optState, gradAcc>>
gradVars == <<gradEnabled, gradPrev>>
iterVars == <<niter, bi, batches_since_update, iter_loss, train_loss>>
countVars == <<nSteps, nBackward, trainFetched, iterSteps, iterBackward, stepsExpected,
               lastStepGrads>>
valVars == <<devFetched, valCalls, valReturns, valAfter, preds, vbi, valResult>>
vars == <<config, trainSize, devSet, maxCalls, fs, savedBy, calls, pc, path, resultsPath,
          outputPath, existed, weights, optState, gradAcc, gradEnabled, gradPrev, mode,
          loss_function, niter, bi, batches_since_update, iter_loss, train_loss,
          nSteps, nBackward, trainFetched, devFetched, nSaves, nLoads, doneWrites,
          valCalls, valReturns, valAfter, iterSteps, iterBackward, stepsExpected,
          lastStepGrads, lastCall, lastLoss, preds, vbi, valResult, raisedAt, loaded>>

\* ------------------------------------------------------- pure helpers
Min(a, b) == IF a < b THEN a ELSE b

\* (itersize // batch) or 1
BatchesPerEpoch == IF config.itersize \div config.batch = 0
                   THEN 1 ELSE config.itersize \div config.batch

\* DataLoader(dataset, batch_size=b): ceil(n / b) batches, the last one short
NumBatches(n, b) == (n + b - 1) \div b

\* the i-th (0-based) batch of the validation DataLoader
DevBatch(i) == SubSeq(devSet, i * config.batch + 1,
                      Min((i + 1) * config.batch, Len(devSet)))

\* optimizer.step(): the weights move by the accumulated gradient
OptimizerStep(w, g) == (w + g) % WMod

\* encoder.test(batch): one score per example, a function of the weights
TestScore(w, ex) == w + ex[1] + 2 * ex[2]
TestScores(w, batch) == [i \in 1..Len(batch) |-> TestScore(w, batch[i])]

\* numpy float16 of an integer-valued score: exact up to 2048, then even
Float16(x) == IF x <= 2048 THEN x ELSE 2 * (x \div 2)

\* ndarray.item(): defined only for an array of exactly one element
ItemDefined(scores) == Len(scores) = 1

\* preds.setdefault(qid, {})[docid] = score
SetPred(p, q, d, s) ==
  LET inner == IF q \in DOMAIN p THEN p[q] ELSE <<>>
      upd == [y \in (DOMAIN inner) \cup {d} |-> IF y = d THEN s ELSE inner[y]]
  IN [x \in (DOMAIN p) \cup {q} |-> IF x = q THEN upd ELSE p[x]]

\* for qid, docid, score in zip(batch["qid"], batch["posdocid"], scores)
RECURSIVE ZipPreds(_, _, _, _)
ZipPreds(p, batch, scores, i) ==
  IF i > Len(batch) \/ i > Len(scores) THEN p
  ELSE ZipPreds(SetPred(p, batch[i][1], batch[i][2], Float16(scores[i])),
                batch, scores, i + 1)

\* encoder.exists(): the sentinel of a completed run is at the results path
Exists(r) == fs[r].done

\* ------------------------------------------------------------- Init
Configs(B, N, I, G, V) ==
  [batch : B, niters : N, itersize : I, gradacc : G, validatefreq : V,
   softmaxloss : BOOLEAN]

DevSets(n) == UNION {[1..k -> Qids \X Docids] : k \in 0..n}

InitWith(C, T, D, K) ==
  /\ config \in C
  /\ trainSize \in T
  /\ devSet \in D
  /\ maxCalls \in K
  /\ fs = [p \in Paths |-> [done |-> FALSE, ckpt |-> NoCkpt]]
  /\ savedBy = [p \in Paths |-> NoCkpt]
  /\ calls = 0 /\ pc = "idle" /\ path = "none"
  /\ resultsPath = 1 /\ outputPath = 1 /\ existed = FALSE
  /\ weights = 0 /\ optState = 0 /\ gradAcc = 0
  /\ gradEnabled = TRUE /\ gradPrev = TRUE /\ mode = "train"
  /\ loss_function = "unset"
  /\ niter = 0 /\ bi = 0 /\ batches_since_update = 0 /\ iter_loss = 0 /\ train_loss = 0
  /\ nSteps = 0 /\ nBackward = 0 /\ trainFetched = 0 /\ devFetched = 0
  /\ nSaves = 0 /\ nLoads = 0 /\ doneWrites = 0
  /\ valCalls = 0 /\ valReturns = 0 /\ valAfter = <<>>
  /\ iterSteps = 0 /\ iterBackward = 0 /\ stepsExpected = 0 /\ lastStepGrads = 0
  /\ lastCall = [kind |-> "none", mode |-> "train", grad |-> TRUE]
  /\ lastLoss = "none" /\ preds = <<>> /\ vbi = 0 /\ valResult = NoPreds
  /\ raisedAt = "none" /\ loaded = NoCkpt

\* validation sets of the general specification: empty, one example, two examples
DevSamples == {<<>>, <<<<1, 1>>>>, <<<<1, 1>>, <<2, 1>>>>}

\* one train() call, every configuration option varied
Init ==
  InitWith(Configs(1..MaxBatch, 0..MaxNiters, 0..MaxIterSize, 1..MaxGradacc,
                   1..MaxValidateFreq),
           0..MaxTrainSize, DevSamples, {1})

\* the validation schedule: niters and validatefreq varied up to the defaults (6, 6)
InitSched ==
  /\ InitWith(Configs({1}, 1..SchedMaxNiters, {1, 2}, {1}, 1..SchedMaxValidateFreq),
              {2}, {<<<<1, 1>>>>}, {1})
  /\ ~config.softmaxloss

\* validate(): every validation set up to MaxDevLen examples, every batch size
InitVal ==
  /\ InitWith(Configs(1..MaxBatch, {1}, {1}, {1}, {1}), {1}, DevSets(MaxDevLen), {1})
  /\ ~config.softmaxloss

\* repeated train() calls over a shared filesystem
InitResume ==
  /\ InitWith(Configs({1}, {1, 2}, {1}, {1}, {2}), {1}, {<<<<1, 1>>>>}, {ResumeCalls})
  /\ ~config.softmaxloss

\* ------------------------------------------------------------ actions
ResetCall ==
  /\ niter' = 0 /\ bi' = 0 /\ batches_since_update' = 0 /\ iter_loss' = 0
  /\ train_loss' = 0
  /\ nSteps' = 0 /\ nBackward' = 0 /\ trainFetched' = 0 /\ devFetched' = 0
  /\ nSaves' = 0 /\ doneWrites' = 0
  /\ valCalls' = 0 /\ valReturns' = 0 /\ valAfter' = <<>>
  /\ iterSteps' = 0 /\ iterBackward' = 0 /\ stepsExpected' = 0 /\ lastStepGrads' = 0
  /\ lastCall' = [kind |-> "none", mode |-> mode, grad |-> gradEnabled]
  /\ lastLoss' = "none" /\ preds' = <<>> /\ vbi' = 0 /\ valResult' = NoPreds
  /\ raisedAt' = "none"

\* train(), lines 76-78: encoder.load_weights(results_path/trained_weights, optimizer)
LoadExisting(r) ==
  /\ weights' = fs[r].ckpt.weights
  /\ optState' = fs[r].ckpt.opt
  /\ loaded' = fs[r].ckpt
  /\ nLoads' = 1
  /\ path' = "resume"
  /\ pc' = "returned"
  /\ UNCHANGED loss_function

\* mutant of TrainSetup: the softmaxloss option wired to the loss selection
TrainSetupWired(w0) ==
  /\ weights' = w0
  /\ optState' = 0
  /\ loaded' = NoCkpt
  /\ nLoads' = 0
  /\ path' = "scratch"
  /\ loss_function' = IF config.softmaxloss THEN "pair_softmax_loss" ELSE "pair_hinge_loss"
  /\ pc' = "iter_head"

\* _train(), lines 83-93: device, loss function, DataLoader
TrainSetup(w0) ==
  /\ weights' = w0
  /\ optState' = 0
  /\ loaded' = NoCkpt
  /\ nLoads' = 0
  /\ path' = "scratch"
  /\ loss_function' = "pair_hinge_loss"
  /\ pc' = "iter_head"

\* mutant of Train: the checkpoint is loaded and training runs all the same
TrainLoadThenTrain(r, o, w0) ==
  /\ pc \in {"idle", "returned", "raised"}
  /\ calls < maxCalls
  /\ calls' = calls + 1
  /\ resultsPath' = r /\ outputPath' = o
  /\ existed' = Exists(r)
  /\ gradAcc' = 0
  /\ ResetCall
  /\ weights' = IF Exists(r) THEN fs[r].ckpt.weights ELSE w0
  /\ optState' = IF Exists(r) THEN fs[r].ckpt.opt ELSE 0
  /\ loaded' = IF Exists(r) THEN fs[r].ckpt ELSE NoCkpt
  /\ nLoads' = IF Exists(r) THEN 1 ELSE 0
  /\ path' = IF Exists(r) THEN "resume" ELSE "scratch"
  /\ loss_function' = "pair_hinge_loss"
  /\ pc' = "iter_head"
  /\ UNCHANGED <<cfgVars, fsVars, gradVars, mode>>

\* train(encoder, ..., output_path, ...): r is encoder.get_results_path(), w0 the
\* encoder's weights on entry
Train(r, o, w0) ==
  /\ pc \in {"idle", "returned", "raised"}
  /\ calls < maxCalls
  /\ calls' = calls + 1
  /\ resultsPath' = r /\ outputPath' = o
  /\ existed' = Exists(r)
  /\ gradAcc' = 0
  /\ ResetCall
  /\ IF Exists(r) THEN LoadExisting(r) ELSE TrainSetup(w0)
  /\ UNCHANGED <<cfgVars, fsVars, gradVars, mode>>

\* mutant of IterStart: encoder.model.train() is not called
IterStartKeepMode ==
  /\ pc = "iter_head" /\ niter < config.niters
  /\ iter_loss' = 0 /\ batches_since_update' = 0 /\ bi' = 0
  /\ iterSteps' = 0 /\ iterBackward' = 0
  /\ pc' = "fetch"
  /\ UNCHANGED <<cfgVars, callVars, fsVars, modelVars, gradVars, mode, loss_function,
                 niter, train_loss, nSteps, nBackward, trainFetched, stepsExpected,
                 lastStepGrads, valVars, nSaves, nLoads, doneWrites, lastCall, lastLoss,
                 raisedAt>>

\* mutant of IterStart: batches_since_update is carried over from the last iteration
IterStartKeepCount ==
  /\ pc = "iter_head" /\ niter < config.niters
  /\ mode' = "train"
  /\ iter_loss' = 0 /\ bi' = 0
  /\ iterSteps' = 0 /\ iterBackward' = 0
  /\ pc' = "fetch"
  /\ UNCHANGED <<cfgVars, callVars, fsVars, modelVars, gradVars, loss_function, niter,
                 batches_since_update, train_loss, nSteps, nBackward, trainFetched,
                 stepsExpected, lastStepGrads, valVars, nSaves, nLoads, doneWrites,
                 lastCall, lastLoss, raisedAt>>

\* for niter in range(niters): encoder.model.train(); single_train_iteration lines 44-47
IterStart ==
  /\ pc = "iter_head" /\ niter < config.niters
  /\ mode' = "train"
  /\ iter_loss' = 0 /\ batches_since_update' = 0 /\ bi' = 0
  /\ iterSteps' = 0 /\ iterBackward' = 0
  /\ pc' = "fetch"
  /\ UNCHANGED <<cfgVars, callVars, fsVars, modelVars, gradVars, loss_function, niter,
                 train_loss, nSteps, nBackward, trainFetched, stepsExpected,
                 lastStepGrads, valVars, nSaves, nLoads, doneWrites, lastCall, lastLoss,
                 raisedAt>>

\* enumerate(train_dataloader): the next batch, or the end of the source
FetchTrainBatch ==
  /\ pc = "fetch"
  /\ IF bi < NumBatches(trainSize, config.batch)
     THEN trainFetched' = trainFetched + 1 /\ pc' = "body"
     ELSE trainFetched' = trainFetched /\ pc' = "iter_end"
  /\ UNCHANGED <<cfgVars, callVars, fsVars, modelVars, gradVars, mode, loss_function,
                 iterVars, nSteps, nBackward, iterSteps, iterBackward, stepsExpected,
                 lastStepGrads, valVars, nSaves, nLoads, doneWrites, lastCall, lastLoss,
                 raisedAt>>

\* the loop body, lines 50-67; fail names the external call that raises, if any
TrainBatch(fail) ==
  LET since == batches_since_update + 1
      scored == fail # "score"
      backed == scored /\ fail # "backward"
      doStep == backed /\ since = config.gradacc
      stepped == doStep /\ fail # "step"
      ok == backed /\ (doStep => stepped)
  IN
  /\ pc = "body"
  /\ fail = "step" => since = config.gradacc
  /\ lastCall' = [kind |-> "score", mode |-> mode, grad |-> gradEnabled]
  /\ lastLoss' = IF scored THEN loss_function ELSE lastLoss
  /\ iter_loss' = IF scored THEN iter_loss + 1 ELSE iter_loss
  /\ nBackward' = IF backed THEN nBackward + 1 ELSE nBackward
  /\ iterBackward' = IF backed THEN iterBackward + 1 ELSE iterBackward
  /\ batches_since_update' = IF ~backed THEN batches_since_update
                             ELSE IF doStep THEN 0 ELSE since
  /\ weights' = IF stepped THEN OptimizerStep(weights, gradAcc + 1) ELSE weights
  /\ optState' = IF stepped THEN optState + 1 ELSE optState
  /\ gradAcc' = IF stepped THEN 0 ELSE IF backed THEN gradAcc + 1 ELSE gradAcc
  /\ lastStepGrads' = IF stepped THEN gradAcc + 1 ELSE lastStepGrads
  /\ nSteps' = IF stepped THEN nSteps + 1 ELSE nSteps
  /\ iterSteps' = IF stepped THEN iterSteps + 1 ELSE iterSteps
  /\ raisedAt' = IF ok THEN raisedAt ELSE fail
  /\ pc' = IF ~ok THEN "raised"
           ELSE IF (bi + 1) % BatchesPerEpoch = 0 THEN "iter_end" ELSE "fetch"
  /\ bi' = IF ok THEN bi + 1 ELSE bi
  /\ UNCHANGED <<cfgVars, callVars, fsVars, gradVars, mode, loss_function, niter,
                 train_loss, trainFetched, stepsExpected, valVars, nSaves, nLoads,
                 doneWrites>>

\* mutant of IterEnd: the validation test on the 0-indexed iteration number
IterEndZeroIndexed ==
  /\ pc = "iter_end"
  /\ IF iter_loss = 0
     THEN /\ pc' = "raised" /\ raisedAt' = "stack"
          /\ UNCHANGED <<train_loss, stepsExpected, niter>>
     ELSE /\ train_loss' = train_loss + 1
          /\ stepsExpected' = stepsExpected + (bi \div config.gradacc)
          /\ raisedAt' = raisedAt
          /\ IF niter % config.validatefreq = 0
             THEN pc' = "validate" /\ niter' = niter
             ELSE pc' = "iter_head" /\ niter' = niter + 1
  /\ UNCHANGED <<cfgVars, callVars, fsVars, modelVars, gradVars, mode, loss_function,
                 bi, batches_since_update, iter_loss, nSteps, nBackward, trainFetched,
                 iterSteps, iterBackward, lastStepGrads, valVars, nSaves, nLoads,
                 doneWrites, lastCall, lastLoss>>

\* line 69 torch.stack(iter_loss).mean() and _train lines 98-103
IterEnd ==
  /\ pc = "iter_end"
  /\ IF iter_loss = 0
     THEN /\ pc' = "raised" /\ raisedAt' = "stack"
          /\ UNCHANGED <<train_loss, stepsExpected, niter>>
     ELSE /\ train_loss' = train_loss + 1
          /\ stepsExpected' = stepsExpected + (bi \div config.gradacc)
          /\ raisedAt' = raisedAt
          /\ IF (niter + 1) % config.validatefreq = 0
             THEN pc' = "validate" /\ niter' = niter
             ELSE pc' = "iter_head" /\ niter' = niter + 1
  /\ UNCHANGED <<cfgVars, callVars, fsVars, modelVars, gradVars, mode, loss_function,
                 bi, batches_since_update, iter_loss, nSteps, nBackward, trainFetched,
                 iterSteps, iterBackward, lastStepGrads, valVars, nSaves, nLoads,
                 doneWrites, lastCall, lastLoss>>

\* validate() lines 116-125: eval mode, DataLoader, preds = {}, enter no_grad()
ValidateStart ==
  /\ pc = "validate"
  /\ mode' = "eval"
  /\ preds' = <<>> /\ vbi' = 0 /\ valResult' = NoPreds
  /\ gradPrev' = gradEnabled /\ gradEnabled' = FALSE
  /\ valCalls' = valCalls + 1
  /\ valAfter' = Append(valAfter, niter + 1)
  /\ pc' = "vloop"
  /\ UNCHANGED <<cfgVars, callVars, fsVars, modelVars, loss_function, iterVars,
                 countVars, devFetched, valReturns, nSaves, nLoads, doneWrites,
                 lastCall, lastLoss, raisedAt>>

\* validate() lines 126-134: one batch of the validation loop
ValidateBatch(fail) ==
  LET batch == DevBatch(vbi)
      scores == TestScores(weights, batch)
      ok == fail = "none" /\ ItemDefined(scores)
  IN
  /\ pc = "vloop" /\ vbi < NumBatches(Len(devSet), config.batch)
  /\ devFetched' = devFetched + 1
  /\ lastCall' = [kind |-> "test", mode |-> mode, grad |-> gradEnabled]
  /\ preds' = IF ok THEN ZipPreds(preds, batch, scores, 1) ELSE preds
  /\ vbi' = IF ok THEN vbi + 1 ELSE vbi
  /\ pc' = IF ok THEN "vloop" ELSE "raised"
  /\ raisedAt' = IF ok THEN raisedAt ELSE IF fail = "none" THEN "item" ELSE fail
  /\ gradEnabled' = IF ok THEN gradEnabled ELSE gradPrev
  /\ UNCHANGED <<cfgVars, callVars, fsVars, modelVars, gradPrev, mode, loss_function,
                 iterVars, countVars, valCalls, valReturns, valAfter, valResult, nSaves,
                 nLoads, doneWrites, lastLoss>>

\* validate() lines 136-138 and _train lines 105-108: leave no_grad(), return preds,
\* evaluator.eval_runs, pickle.dump
ValidateReturn(fail) ==
  /\ pc = "vloop" /\ vbi >= NumBatches(Len(devSet), config.batch)
  /\ gradEnabled' = gradPrev
  /\ valResult' = [returned |-> TRUE, preds |-> preds]
  /\ valReturns' = valReturns + 1
  /\ IF fail = "none"
     THEN pc' = "iter_head" /\ niter' = niter + 1 /\ raisedAt' = raisedAt
     ELSE pc' = "raised" /\ niter' = niter /\ raisedAt' = fail
  /\ UNCHANGED <<cfgVars, callVars, fsVars, modelVars, gradPrev, mode, loss_function,
                 bi, batches_since_update, iter_loss, train_loss, countVars, devFetched,
                 valCalls, valAfter, preds, vbi, nSaves, nLoads, doneWrites, lastCall,
                 lastLoss>>

\* mutant of SaveWeights: a failure of save_weights is swallowed
SaveWeightsSwallow(fail) ==
  /\ pc = "iter_head" /\ niter >= config.niters
  /\ IF fail = "none"
     THEN /\ fs' = [fs EXCEPT ![outputPath].ckpt = [weights |-> weights, opt |-> optState]]
          /\ savedBy' = [savedBy EXCEPT ![resultsPath] =
                           [weights |-> weights, opt |-> optState]]
          /\ nSaves' = nSaves + 1
     ELSE UNCHANGED <<fs, savedBy, nSaves>>
  /\ pc' = "write_done" /\ raisedAt' = raisedAt
  /\ UNCHANGED <<cfgVars, callVars, modelVars, gradVars, mode, loss_function, iterVars,
                 countVars, valVars, nLoads, doneWrites, lastCall, lastLoss>>

\* _train lines 110-111: encoder.save_weights(output_path/trained_weights, optimizer)
SaveWeights(fail) ==
  /\ pc = "iter_head" /\ niter >= config.niters
  /\ IF fail = "none"
     THEN /\ fs' = [fs EXCEPT ![outputPath].ckpt = [weights |-> weights, opt |-> optState]]
          /\ savedBy' = [savedBy EXCEPT ![resultsPath] =
                           [weights |-> weights, opt |-> optState]]
          /\ nSaves' = nSaves + 1
          /\ pc' = "write_done" /\ raisedAt' = raisedAt
     ELSE /\ pc' = "raised" /\ raisedAt' = fail
          /\ UNCHANGED <<fs, savedBy, nSaves>>
  /\ UNCHANGED <<cfgVars, callVars, modelVars, gradVars, mode, loss_function, iterVars,
                 countVars, valVars, nLoads, doneWrites, lastCall, lastLoss>>

\* _train lines 112-113: the "done" sentinel
WriteDone ==
  /\ pc = "write_done"
  /\ fs' = [fs EXCEPT ![outputPath].done = TRUE]
  /\ doneWrites' = doneWrites + 1
  /\ pc' = "returned"
  /\ UNCHANGED <<cfgVars, callVars, savedBy, modelVars, gradVars, mode, loss_function,
                 iterVars, countVars, valVars, nSaves, nLoads, lastCall, lastLoss,
                 raisedAt>>

\* ------------------------------------------------------------- claims
Max(a, b) == IF a > b THEN a ELSE b
Saved == [weights |-> weights, opt |-> optState]
ScratchRun == pc # "idle" /\ path = "scratch"

\* C1: every train() call takes exactly one path: with encoder.exists() it loads the
\* weights and optimizer state and does no optimizer step, no backward pass, no fetch
\* from the training or validation source and no save; otherwise it trains and never
\* calls load_weights.
C1_OnePath ==
  pc # "idle" =>
    /\ path \in {"resume", "scratch"}
    /\ (path = "resume") <=> existed
    /\ path = "resume" =>
         /\ pc = "returned" /\ nLoads = 1
         /\ loaded = fs[resultsPath].ckpt
         /\ weights = loaded.weights /\ optState = loaded.opt
         /\ nSteps = 0 /\ nBackward = 0 /\ trainFetched = 0 /\ devFetched = 0
         /\ valCalls = 0 /\ nSaves = 0 /\ doneWrites = 0
    /\ path = "scratch" => nLoads = 0 /\ loaded = NoCkpt

C1_Witness ==
  /\ calls >= 2 /\ path = "resume" /\ pc = "returned" /\ existed
  /\ loaded # NoCkpt /\ weights = loaded.weights

\* C2: each call of single_train_iteration consumes exactly max(1, itersize // batch)
\* batches, for every training-set size, cycling over the source where it is short
\* (stated for the non-empty training sets; on an empty one the iteration raises).
C2_ExactBatches ==
  (pc = "iter_end" /\ trainSize >= 1) =>
    /\ bi = Max(1, config.itersize \div config.batch)
    /\ trainFetched = (niter + 1) * Max(1, config.itersize \div config.batch)

\* C3: every optimizer step is applied to gradients accumulated from exactly gradacc
\* backward passes since they were last cleared (or since the run began); with
\* gradacc = 1 every batch is followed by a step and a clear before the next fetch.
C3_ExactAccumulation ==
  ScratchRun =>
    /\ nSteps > 0 => lastStepGrads = config.gradacc
    /\ (config.gradacc = 1 /\ pc = "fetch") => (gradAcc = 0 /\ nSteps = nBackward)

\* C4: with niters >= 1 and validatefreq >= 1, validate() is called exactly after the
\* iterations whose 1-indexed number is a multiple of validatefreq, right after that
\* iteration's training and before the next iteration starts, floor(niters /
\* validatefreq) times in a run that completes, all of them before the save.
C4_ValidationSchedule ==
  LET vf == config.validatefreq
      trained == IF pc \in {"validate", "vloop"} \/ (pc = "raised" /\ valCalls > valReturns)
                      \/ (pc = "raised" /\ raisedAt = "eval_runs")
                 THEN niter + 1 ELSE niter
  IN ScratchRun =>
       /\ \A i \in 1..Len(valAfter) : valAfter[i] = i * vf
       /\ Len(valAfter) = valCalls
       /\ pc = "validate" => (niter + 1) % vf = 0 /\ valCalls = niter \div vf
       /\ pc # "validate" => valCalls = trained \div vf
       /\ pc \in {"iter_head", "fetch", "body", "iter_end"} => valReturns = niter \div vf
       /\ (nSaves > 0 \/ pc \in {"write_done", "returned"}) =>
            /\ valCalls = config.niters \div vf
            /\ valReturns = config.niters \div vf

C4_Witness ==
  /\ config.niters = 6 /\ config.validatefreq = 6
  /\ pc = "returned" /\ path = "scratch" /\ valAfter = <<6>> /\ valReturns = 1

\* C5: the "done" sentinel is written only after all niters iterations and their
\* scheduled validations and after save_weights stored the weights and optimizer state
\* at output_path; a run in which a step raises ends there and writes no sentinel.
C5_SentinelLast ==
  /\ doneWrites <= 1 /\ nSaves <= 1
  /\ doneWrites = 1 =>
       /\ path = "scratch" /\ pc = "returned" /\ raisedAt = "none"
       /\ niter = config.niters /\ train_loss = config.niters
       /\ valReturns = config.niters \div config.validatefreq
       /\ nSaves = 1
       /\ fs[outputPath].ckpt = Saved /\ fs[outputPath].done
  /\ (pc = "raised") <=> (raisedAt # "none")
  /\ pc = "raised" => doneWrites = 0
  /\ pc = "write_done" => nSaves = 1 /\ fs[outputPath].ckpt = Saved

C5_Witness ==
  /\ pc = "returned" /\ doneWrites = 1 /\ config.niters = 2 /\ valReturns = 2
  /\ fs[outputPath].done

\* C6: for every validation set and batch size validate() completes and returns a
\* mapping whose outer keys are the distinct query ids of the validation set and whose
\* inner keys, per query, are the distinct document ids paired with it.
ExpectedQids == {devSet[i][1] : i \in 1..Len(devSet)}
ExpectedDocs(q) == {devSet[i][2] : i \in {j \in 1..Len(devSet) : devSet[j][1] = q}}
C6_ValidateKeys ==
  /\ raisedAt # "item"
  /\ valResult.returned =>
       /\ DOMAIN valResult.preds = ExpectedQids
       /\ \A q \in ExpectedQids : DOMAIN valResult.preds[q] = ExpectedDocs(q)

\* C7: a train() call that takes the resume path loads exactly the weights and
\* optimizer state that the encoder's from-scratch run saved, so the encoder scores
\* every example as it did when that run saved.
C7_RoundTrip ==
  (pc = "returned" /\ path = "resume" /\ savedBy[resultsPath] # NoCkpt) =>
    /\ loaded = savedBy[resultsPath]
    /\ \A ex \in Qids \X Docids :
         TestScore(weights, ex) = TestScore(savedBy[resultsPath].weights, ex)

\* C8: encoder.score is only called in training mode with gradient tracking on,
\* encoder.test only in evaluation mode with gradient tracking off; outside validate()
\* gradient tracking is on, and an iteration is in training mode before its first batch.
C8_Modes ==
  /\ lastCall.kind = "score" => lastCall.mode = "train" /\ lastCall.grad
  /\ lastCall.kind = "test" => lastCall.mode = "eval" /\ ~lastCall.grad
  /\ pc # "vloop" => gradEnabled
  /\ pc = "vloop" => ~gradEnabled /\ mode = "eval"
  /\ pc \in {"fetch", "body"} => mode = "train"

C8_Witness ==
  /\ valReturns >= 1 /\ lastCall.kind = "score" /\ niter >= 1 /\ pc = "iter_end"

C10_StepCount ==
  ScratchRun =>
    /\ pc \in {"fetch", "iter_end"} =>
         /\ batches_since_update \in 0..(config.gradacc - 1)
         /\ batches_since_update = bi % config.gradacc
         /\ iterBackward = bi
         /\ iterSteps = bi \div config.gradacc
    /\ (pc = "fetch" /\ bi = 0) => batches_since_update = 0
    /\ pc \in {"iter_head", "write_done", "returned"} => nSteps = stepsExpected
    /\ (pc = "returned" /\ config.gradacc = 1 /\ config.niters = 1 /\ nBackward = 2)
         => nSteps = 2

C10_Witness ==
  /\ pc = "iter_end" /\ config.gradacc = 2 /\ bi = 3 /\ iterSteps = 1 /\ niter = 1
  /\ nSteps = 2

Next ==
  \/ \E r \in Paths, o \in Paths, w0 \in 0..1 : Train(r, o, w0)
  \/ IterStart
  \/ FetchTrainBatch
  \/ \E fail \in {"none", "score", "backward", "step"} : TrainBatch(fail)
  \/ IterEnd
  \/ ValidateStart
  \/ \E fail \in {"none", "test"} : ValidateBatch(fail)
  \/ \E fail \in {"none", "eval_runs"} : ValidateReturn(fail)
  \/ \E fail \in {"none", "save_weights"} : SaveWeights(fail)
  \/ WriteDone

Spec == Init /\ [][Next]_vars
SpecSched == InitSched /\ [][Next]_vars
SpecVal == InitVal /\ [][Next]_vars
SpecResume == InitResume /\ [][Next]_vars
====
